---- MODULE Spec2Model ----
(***************************************************************************)
(* A model of the rusty-state-machine engine (src/src/lib.rs): the graph   *)
(* objects, the adjacency index built by StateMachine::new, dispatch and   *)
(* transition with their hooks, and the hydrate / dehydrate conversions.   *)
(*                                                                         *)
(* A Rust reference is modelled by the (immutable) object it points to,    *)
(* carrying its address in the field addr: ptr::eq compares addr, the      *)
(* derived PartialEq / Hash of State compares id.                          *)
(***************************************************************************)
EXTENDS Integers, Sequences, FiniteSets, TLC

\* Longest edge collection handed to StateMachine::new.
MaxEdges == 3
\* Longest transition history a run explores.
MaxHistory == 2

(***************************************************************************)
(* Graph objects                                                           *)
(***************************************************************************)

\* struct State { id }
State(a, i) == [addr |-> a, id |-> i]

\* struct Event { id, payload }
Event(a, i, p) == [addr |-> a, id |-> i, payload |-> p]

\* struct Edge { id, from_state, to_state, info }
Edge(a, i, f, t, n) ==
    [addr |-> a, id |-> i, from_state |-> f, to_state |-> t, info |-> n]

\* Fillers for the fields of an observation that carries no such object.
NoState == State(0, "")
NoEvent == Event(0, "", 0)
NoEdge == Edge(0, "", NoState, NoState, "")

\* The live State objects of the caller: s3 is a distinct object with s1's id.
s1 == State(1, "A")
s2 == State(2, "B")
s3 == State(3, "A")
StatePool == {s1, s2, s3}

\* The live Edge objects of the caller: e2 is a distinct object with e1's id
\* (as edge1 / edge2 of it_panics_on_multiple_transitions).
e1 == Edge(1, "e1", s1, s2, "go")
e2 == Edge(2, "e1", s1, s3, "back")
e3 == Edge(3, "e3", s2, s1, "back")
e4 == Edge(4, "e4", s3, s3, "back")
EdgePool == {e1, e2, e3, e4}

\* The events the caller dispatches.
ev1 == Event(1, "go", 0)
ev2 == Event(2, "back", 1)
EventPool == {ev1, ev2}

\* The state collections handed to StateMachine::new.
StateLists ==
    { <<s1, s2>>, <<s1, s2, s3>>, <<s3, s2, s1>>, <<s2>>, <<>> }

\* All sequences over S of length at most n.
SeqUpTo(S, n) == UNION { [1..k -> S] : k \in 0..n }

\* ptr::eq on two references.
PtrEq(a, b) == a.addr = b.addr

(***************************************************************************)
(* The decision function (EventHandler): a pure fn pointer chosen by the   *)
(* caller.  Option<Context> is a record: some = FALSE is None.             *)
(***************************************************************************)
None == [some |-> FALSE, val |-> 0]
Some(v) == [some |-> TRUE, val |-> v]

Handlers == {"always", "by_info", "while_zero"}

EventHandler(h, event, edge, context) ==
    CASE h = "always" -> Some(context + 1)
      [] h = "by_info" ->
            IF edge.info = event.id THEN Some(context + edge.addr) ELSE None
      [] h = "while_zero" ->
            IF context = 0 THEN Some(edge.addr) ELSE None

(***************************************************************************)
(* The machine                                                             *)
(***************************************************************************)
VARIABLES
    states,                 \* StateMachine.states
    edges,                  \* StateMachine.edges
    initial_state,          \* the initial_state argument of StateMachine::new
    event_handler,          \* StateMachine.event_handler
    start_dispatch_hook,    \* TRUE iff StateMachine.start_dispatch_hook is Some
    end_dispatch_hook,      \* TRUE iff StateMachine.end_dispatch_hook is Some
    on_edge_traversal_hook, \* TRUE iff StateMachine.on_edge_traversal_hook is Some
    state_to_edge_map,      \* StateMachine.state_to_edge_map, keyed by State value (its id)
    current_state,          \* StateMachine.current_state (always Some)
    current_context,        \* StateMachine.current_context
    transition_history,     \* StateMachine.transition_history
    status,                 \* "ready", or "panicked" once a dispatch has panicked
    trace                   \* what the last dispatch call did, step by step

machine_vars ==
    << states, edges, initial_state, event_handler, start_dispatch_hook,
       end_dispatch_hook, on_edge_traversal_hook, state_to_edge_map,
       current_state, current_context, transition_history, status, trace >>

\* The mutable part of a machine, as the steps of a dispatch read and write it.
Machine(s, c, h) ==
    [current_state |-> s, current_context |-> c, transition_history |-> h]

\* struct TransitionRecord { from_state, to_state, event, edge, context }
TransitionRecord(f, t, ev, ed, c) ==
    [from_state |-> f, to_state |-> t, event |-> ev, edge |-> ed, context |-> c]

\* The edges pushed to state_edges for one state: those whose from_state is
\* this very object.
StateEdges(state, es) == SelectSeq(es, LAMBDA edge : PtrEq(edge.from_state, state))

\* HashMap::insert with a &State key: State hashes and compares by id, so a
\* second state with an id already present replaces the stored value.
HashMapInsert(map, state, value) ==
    [k \in DOMAIN map \cup {state.id} |-> IF k = state.id THEN value ELSE map[k]]

\* HashMapGet answering a missing key with an empty edge list.
HashMapGet_Default(map, state) ==
    IF state.id \in DOMAIN map THEN Some(map[state.id]) ELSE Some(<< >>)

\* HashMapGet taking a key with an empty edge list for a missing one.
HashMapGet_EmptyIsMissing(map, state) ==
    IF state.id \in DOMAIN map /\ map[state.id] /= << >>
    THEN Some(map[state.id])
    ELSE [some |-> FALSE, val |-> << >>]

\* HashMap::get with a &State key.
HashMapGet(map, state) ==
    IF state.id \in DOMAIN map THEN Some(map[state.id]) ELSE [some |-> FALSE, val |-> <<>>]

\* The loop of StateMachine::new that fills state_to_edge_map.
RECURSIVE BuildIndex(_, _, _, _)
BuildIndex(ss, es, i, map) ==
    IF i > Len(ss) THEN map
    ELSE BuildIndex(ss, es, i + 1, HashMapInsert(map, ss[i], StateEdges(ss[i], es)))

EmptyMap == [k \in {} |-> <<>>]

\* One step of a dispatch call as an observer sees it: the call's arguments
\* (event, edge, state, context), the decision function's result, and the
\* machine as it is at that moment.
Obs(kind, event, edge, state, context, result, m) ==
    [kind |-> kind, event |-> event, edge |-> edge, state |-> state,
     context |-> context, result |-> result, m |-> m]

\* ReplaceCurrentContext writing into a temporary: the field keeps its value.
ReplaceCurrentContext_Temp(cur, context) == [old |-> cur, new |-> cur]

\* ReplaceCurrentContext returning the value it has just stored.
ReplaceCurrentContext_ReturnsNew(cur, context) == [old |-> context, new |-> context]

\* std::mem::replace(&mut self.current_context, context): the field takes the
\* new value, the old one is returned.
ReplaceCurrentContext(cur, context) == [old |-> cur, new |-> context]

\* std::mem::replace(&mut self.current_state.unwrap(), edge.to_state):
\* Option<&State> is Copy, so unwrap() yields a temporary &State; the
\* replacement is written into that temporary and the field keeps its value.
ReplaceCurrentState(cur, to_state) == [old |-> cur, new |-> cur]

\* Transition calling the edge-traversal hook after the push instead of before.
Transition_HookAfterPush(m, hook, event, edge, context) ==
    LET c == [old |-> m.current_context, new |-> context]
        record == TransitionRecord(m.current_state, edge.to_state, event, edge, c.old)
        m2 == Machine(m.current_state, c.new, Append(m.transition_history, record))
        hooked == IF hook
                  THEN << Obs("traverse", event, edge, NoState, context, None, m2) >>
                  ELSE << >>
    IN  [m |-> m2,
         obs |-> << Obs("append", event, edge, NoState, c.old, None, m2) >> \o hooked]

\* Transition letting a registered edge-traversal hook veto the transition.
Transition_HookVetoes(m, hook, event, edge, context) ==
    LET record == TransitionRecord(m.current_state, edge.to_state, event, edge,
                                   m.current_context)
        m2 == Machine(m.current_state, context, Append(m.transition_history, record))
    IN  IF hook
        THEN [m |-> m, obs |-> << Obs("traverse", event, edge, NoState, context, None, m) >>]
        ELSE [m |-> m2,
              obs |-> << Obs("append", event, edge, NoState, m.current_context, None, m2) >>]

\* Transition storing the new record as the whole history.
Transition_Overwrite(m, hook, event, edge, context) ==
    LET hooked == IF hook
                  THEN << Obs("traverse", event, edge, NoState, context, None, m) >>
                  ELSE << >>
        record == TransitionRecord(m.current_state, edge.to_state, event, edge,
                                   m.current_context)
        m2 == Machine(m.current_state, context, << record >>)
    IN  [m |-> m2,
         obs |-> hooked \o << Obs("append", event, edge, NoState, m.current_context, None, m2) >>]

\* StateMachine::transition
Transition(m, hook, event, edge, context) ==
    LET hooked == IF hook
                  THEN << Obs("traverse", event, edge, NoState, context, None, m) >>
                  ELSE << >>
        c == ReplaceCurrentContext(m.current_context, context)
        s == ReplaceCurrentState(m.current_state, edge.to_state)
        record == TransitionRecord(s.old, edge.to_state, event, edge, c.old)
        m2 == Machine(s.new, c.new, Append(m.transition_history, record))
    IN  [m |-> m2,
         obs |-> hooked \o << Obs("append", event, edge, NoState, c.old, None, m2) >>]

\* Matched taking every result, None included, for a match.
Matched_Always(result) == TRUE

\* if let Some(new_context) = event_handler_result
Matched(result) == result.some

\* AssertNoTransitioningEdge compiled out: a later match replaces an earlier one.
AssertNoTransitioningEdge_Off(te) == TRUE

\* assert!(transitioning_edge.is_none(), "Cannot have multiple transitioning edges")
AssertNoTransitioningEdge(te) == ~te.some

\* EvalEdges leaving the loop at the first match.
RECURSIVE EvalEdges_BreakOnMatch(_, _, _, _, _, _, _)
EvalEdges_BreakOnMatch(h, event, es, m, i, te, obs) ==
    IF i > Len(es) THEN [panic |-> FALSE, te |-> te, obs |-> obs]
    ELSE LET r == EventHandler(h, event, es[i], m.current_context)
             o == Append(obs, Obs("decide", event, es[i], NoState, m.current_context, r, m))
         IN  IF r.some
             THEN [panic |-> FALSE, te |-> Some([edge |-> es[i], context |-> r.val]),
                   obs |-> o]
             ELSE EvalEdges_BreakOnMatch(h, event, es, m, i + 1, te, o)

\* The for loop of dispatch over the outgoing edges: the pair held in
\* transitioning_edge (edge, new_context), whether the assert! failed, and the
\* decision-function calls made.
RECURSIVE EvalEdges(_, _, _, _, _, _, _)
EvalEdges(h, event, es, m, i, te, obs) ==
    IF i > Len(es) THEN [panic |-> FALSE, te |-> te, obs |-> obs]
    ELSE LET r == EventHandler(h, event, es[i], m.current_context)
             o == Append(obs, Obs("decide", event, es[i], NoState, m.current_context, r, m))
         IN  IF Matched(r)
             THEN IF AssertNoTransitioningEdge(te)
                  THEN EvalEdges(h, event, es, m, i + 1,
                                 Some([edge |-> es[i], context |-> r.val]), o)
                  ELSE [panic |-> TRUE, te |-> te, obs |-> o]
             ELSE EvalEdges(h, event, es, m, i + 1, te, o)

NoTransition == [some |-> FALSE, val |-> [edge |-> NoEdge, context |-> 0]]

\* StartHook never calling the hook.
StartHook_Skipped(registered, event, m) == << >>

\* The call of start_dispatch_hook, if registered, with the machine's
\* current state and context.
StartHook(registered, event, m) ==
    IF registered
    THEN << Obs("start", event, NoEdge, m.current_state, m.current_context, None, m) >>
    ELSE << >>

\* EndHook calling the hook only after a transition (a non-empty history).
EndHook_OnlyAfterTransition(registered, event, m) ==
    IF registered /\ m.transition_history /= << >>
    THEN << Obs("end", event, NoEdge, m.current_state, m.current_context, None, m) >>
    ELSE << >>

\* The call of end_dispatch_hook, if registered, with the machine's current
\* state and context.
EndHook(registered, event, m) ==
    IF registered
    THEN << Obs("end", event, NoEdge, m.current_state, m.current_context, None, m) >>
    ELSE << >>

\* StateMachine::dispatch: the machine it leaves, whether it panicked, and
\* the steps it took.  The first step, "call", is the entry into dispatch.
DispatchResult(m, map, h, hs, he, ht, event) ==
    LET call == << Obs("call", event, NoEdge, NoState, 0, None, m) >>
        start == StartHook(hs, event, m)
        found == HashMapGet(map, m.current_state)
    IN  IF ~found.some
        THEN [m |-> m, panic |-> TRUE,
              obs |-> call \o start
                      \o << Obs("panic_no_state", event, NoEdge, NoState, 0, None, m) >>]
        ELSE LET loop == EvalEdges(h, event, found.val, m, 1, NoTransition, << >>)
             IN  IF loop.panic
                 THEN [m |-> m, panic |-> TRUE,
                       obs |-> call \o start \o loop.obs
                               \o << Obs("panic_multiple", event, NoEdge, NoState, 0, None, m) >>]
                 ELSE LET tr == IF loop.te.some
                                THEN Transition(m, ht, event, loop.te.val.edge,
                                                loop.te.val.context)
                                ELSE [m |-> m, obs |-> << >>]
                      IN  [m |-> tr.m, panic |-> FALSE,
                           obs |-> call \o start \o loop.obs \o tr.obs
                                   \o EndHook(he, event, tr.m)]

(***************************************************************************)
(* Hydration and dehydration                                               *)
(***************************************************************************)

\* Largest context value carried by a transition record under conversion.
MaxContext == 1
\* Longest chain of conversions applied to one object.
MaxSteps == 2

\* A third event for the event universes: a distinct object with ev1's id.
ev3 == Event(3, "go", 2)

\* The address of the object a hydrate call returns (no live object has it).
HydratedAddr == 9

\* struct DeserializableEdge { id, from_state_id, to_state_id, info }
DeserializableEdge(i, f, t, n) ==
    [id |-> i, from_state_id |-> f, to_state_id |-> t, info |-> n]

\* struct DeserializableTransitionRecord
\*     { from_state_id, to_state_id, event_id, edge_id, context }
DeserializableTransitionRecord(f, t, ev, ed, c) ==
    [from_state_id |-> f, to_state_id |-> t, event_id |-> ev, edge_id |-> ed,
     context |-> c]

\* The universes a caller hands to hydrate.
StateUniverses == StateLists
EdgeUniverses == { <<e1, e2, e3, e4>>, <<e2, e1>>, <<e3>>, << >> }
EventUniverses == { <<ev1, ev2, ev3>>, <<ev3, ev1>>, <<ev2>> }

\* The ids a flat form can carry: those of the live objects and one of none.
StateIds == {"A", "B", "C"}
EdgeIds == {"e1", "e3", "e4", "e9"}
EventIds == {"go", "back", "none"}
Infos == {"go", "back"}

\* FindById keeping the last match instead of the first.
FindById_Last(universe, id) ==
    LET hits == { i \in 1..Len(universe) : universe[i].id = id }
    IN  IF hits = {} THEN [some |-> FALSE, val |-> NoState]
        ELSE Some(universe[CHOOSE i \in hits : \A j \in hits : i >= j])

\* FindById answering a missing id with a placeholder object.
FindById_Default(universe, id) ==
    LET hits == { i \in 1..Len(universe) : universe[i].id = id }
    IN  IF hits = {} THEN Some(NoState)
        ELSE Some(universe[CHOOSE i \in hits : \A j \in hits : i <= j])

\* iter().find(|o| o.id == id) on a vector of references: the first match.
FindById(universe, id) ==
    LET hits == { i \in 1..Len(universe) : universe[i].id = id }
    IN  IF hits = {} THEN [some |-> FALSE, val |-> NoState]
        ELSE Some(universe[CHOOSE i \in hits : \A j \in hits : i <= j])

\* The panic of a failed expect(): which kind of object, which id.
Panic(what, id) == [panicked |-> TRUE, what |-> what, id |-> id]
Returned(v) == [panicked |-> FALSE, val |-> v]

\* Edge::hydrate
EdgeHydrate(flat, ss) ==
    LET from_state == FindById(ss, flat.from_state_id)
        to_state == FindById(ss, flat.to_state_id)
    IN  IF ~from_state.some THEN Panic("state", flat.from_state_id)
        ELSE IF ~to_state.some THEN Panic("state", flat.to_state_id)
        ELSE Returned(Edge(HydratedAddr, flat.id, from_state.val, to_state.val, flat.info))

\* From<Edge> for DeserializableEdge
EdgeDehydrate(edge) ==
    DeserializableEdge(edge.id, edge.from_state.id, edge.to_state.id, edge.info)

\* TransitionRecord::hydrate
RecordHydrate(flat, ss, es, evs) ==
    LET from_state == FindById(ss, flat.from_state_id)
        to_state == FindById(ss, flat.to_state_id)
        event == FindById(evs, flat.event_id)
        edge == FindById(es, flat.edge_id)
    IN  IF ~from_state.some THEN Panic("state", flat.from_state_id)
        ELSE IF ~to_state.some THEN Panic("state", flat.to_state_id)
        ELSE IF ~event.some THEN Panic("event", flat.event_id)
        ELSE IF ~edge.some THEN Panic("edge", flat.edge_id)
        ELSE Returned(TransitionRecord(from_state.val, to_state.val, event.val,
                                       edge.val, flat.context))

\* RecordDehydrate taking the state ids from the record's edge.
RecordDehydrate_StatesOfEdge(record) ==
    DeserializableTransitionRecord(record.edge.from_state.id, record.edge.to_state.id,
                                   record.event.id, record.edge.id, record.context)

\* From<TransitionRecord> for DeserializableTransitionRecord
RecordDehydrate(record) ==
    DeserializableTransitionRecord(record.from_state.id, record.to_state.id,
                                   record.event.id, record.edge.id, record.context)

VARIABLES
    c_states,   \* the states argument of hydrate
    c_edges,    \* the edges argument of TransitionRecord::hydrate
    c_events,   \* the events argument of TransitionRecord::hydrate
    c_obj,      \* the object under conversion: its kind, its form and its value
    c_path      \* the forms the object went through before, oldest first

codec_vars == << c_states, c_edges, c_events, c_obj, c_path >>

Obj(kind, form, val) == [kind |-> kind, form |-> form, val |-> val]

LiveEdges == EdgePool
FlatEdges ==
    { DeserializableEdge(i, f, t, n) :
        i \in {"e1", "e3"}, f \in StateIds, t \in StateIds, n \in Infos }
LiveRecords ==
    { TransitionRecord(f, t, ev, ed, c) :
        f \in StatePool, t \in StatePool, ev \in {ev1, ev2, ev3}, ed \in EdgePool,
        c \in 0..MaxContext }
FlatRecords ==
    { DeserializableTransitionRecord(f, t, ev, ed, c) :
        f \in StateIds, t \in StateIds, ev \in EventIds, ed \in EdgeIds,
        c \in 0..MaxContext }

\* No conversion is under way (the machine runs).
CodecIdle ==
    /\ c_states = << >>
    /\ c_edges = << >>
    /\ c_events = << >>
    /\ c_obj = Obj("none", "none", 0)
    /\ c_path = << >>

\* An edge or a transition record, live or flat, and the universes of the
\* hydrate calls to come.
InitCodec ==
    /\ c_states \in StateUniverses
    /\ c_path = << >>
    /\ \/ /\ c_edges = << >>
          /\ c_events = << >>
          /\ \/ \E x \in LiveEdges : c_obj = Obj("edge", "live", x)
             \/ \E x \in FlatEdges : c_obj = Obj("edge", "flat", x)
       \/ /\ c_edges \in EdgeUniverses
          /\ c_events \in EventUniverses
          /\ \/ \E x \in LiveRecords : c_obj = Obj("record", "live", x)
             \/ \E x \in FlatRecords : c_obj = Obj("record", "flat", x)

\* The outcome of a hydrate call as the next form of the object.
Hydrated(kind, r) ==
    IF r.panicked THEN Obj(kind, "panicked", r) ELSE Obj(kind, "live", r.val)

\* DeserializableEdge::from(edge)
DehydrateEdge ==
    /\ c_obj.kind = "edge" /\ c_obj.form = "live"
    /\ Len(c_path) < MaxSteps
    /\ c_obj' = Obj("edge", "flat", EdgeDehydrate(c_obj.val))
    /\ c_path' = Append(c_path, c_obj)
    /\ UNCHANGED << c_states, c_edges, c_events >>
    /\ UNCHANGED machine_vars

\* Edge::hydrate(flat, states)
HydrateEdge ==
    /\ c_obj.kind = "edge" /\ c_obj.form = "flat"
    /\ Len(c_path) < MaxSteps
    /\ c_obj' = Hydrated("edge", EdgeHydrate(c_obj.val, c_states))
    /\ c_path' = Append(c_path, c_obj)
    /\ UNCHANGED << c_states, c_edges, c_events >>
    /\ UNCHANGED machine_vars

\* DeserializableTransitionRecord::from(record)
DehydrateRecord ==
    /\ c_obj.kind = "record" /\ c_obj.form = "live"
    /\ Len(c_path) < MaxSteps
    /\ c_obj' = Obj("record", "flat", RecordDehydrate(c_obj.val))
    /\ c_path' = Append(c_path, c_obj)
    /\ UNCHANGED << c_states, c_edges, c_events >>
    /\ UNCHANGED machine_vars

\* TransitionRecord::hydrate(flat, states, edges, events)
HydrateRecord ==
    /\ c_obj.kind = "record" /\ c_obj.form = "flat"
    /\ Len(c_path) < MaxSteps
    /\ c_obj' = Hydrated("record", RecordHydrate(c_obj.val, c_states, c_edges, c_events))
    /\ c_path' = Append(c_path, c_obj)
    /\ UNCHANGED << c_states, c_edges, c_events >>
    /\ UNCHANGED machine_vars

\* StateMachine::new, for every configuration the caller can supply.
Init ==
    /\ states \in StateLists
    /\ edges \in SeqUpTo(EdgePool, MaxEdges)
    /\ initial_state \in StatePool
    /\ event_handler \in Handlers
    /\ start_dispatch_hook \in BOOLEAN
    /\ end_dispatch_hook \in BOOLEAN
    /\ on_edge_traversal_hook \in BOOLEAN
    /\ state_to_edge_map = BuildIndex(states, edges, 1, EmptyMap)
    /\ current_state = initial_state
    /\ current_context = 0
    /\ transition_history = << >>
    /\ status = "ready"
    /\ trace = << >>
    /\ CodecIdle

\* A call of dispatch(event) on a machine that has not panicked.
Dispatch(event) ==
    /\ status = "ready"
    /\ Len(transition_history) < MaxHistory
    /\ LET r == DispatchResult(
                    Machine(current_state, current_context, transition_history),
                    state_to_edge_map, event_handler, start_dispatch_hook,
                    end_dispatch_hook, on_edge_traversal_hook, event)
       IN  /\ current_state' = r.m.current_state
           /\ current_context' = r.m.current_context
           /\ transition_history' = r.m.transition_history
           /\ status' = IF r.panic THEN "panicked" ELSE "ready"
           /\ trace' = r.obs
    /\ UNCHANGED << states, edges, initial_state, event_handler, start_dispatch_hook,
                    end_dispatch_hook, on_edge_traversal_hook, state_to_edge_map >>
    /\ UNCHANGED codec_vars

Next == \E event \in EventPool : Dispatch(event)

vars == << machine_vars, codec_vars >>

Spec == Init /\ [][Next]_vars

\* The conversions alone: a machine over the empty graph is constructed and
\* never dispatched to.
MachineIdle ==
    /\ states = << >>
    /\ edges = << >>
    /\ initial_state = s1
    /\ event_handler = "always"
    /\ start_dispatch_hook = FALSE
    /\ end_dispatch_hook = FALSE
    /\ on_edge_traversal_hook = FALSE
    /\ state_to_edge_map = BuildIndex(states, edges, 1, EmptyMap)
    /\ current_state = initial_state
    /\ current_context = 0
    /\ transition_history = << >>
    /\ status = "ready"
    /\ trace = << >>

InitConvert == MachineIdle /\ InitCodec

NextConvert ==
    \/ DehydrateEdge
    \/ HydrateEdge
    \/ DehydrateRecord
    \/ HydrateRecord

SpecCodec == InitConvert /\ [][NextConvert]_vars

(***************************************************************************)
(* The last dispatch call, read off the trace                              *)
(***************************************************************************)

\* A dispatch call has been made; trace describes the last one.
Dispatched == trace /= << >>

\* The machine as it was when the last dispatch was entered, and its event.
Pre == trace[1].m
TheEvent == trace[1].event

\* The current state of that dispatch has an entry in the adjacency index.
InIndex == Pre.current_state.id \in DOMAIN state_to_edge_map

\* The outgoing edges of that state, as the index lists them.
Outgoing == state_to_edge_map[Pre.current_state.id]

\* The result of the decision function on the i-th outgoing edge under the
\* event and the context of that dispatch.
Decision(i) == EventHandler(event_handler, TheEvent, Outgoing[i], Pre.current_context)

\* The positions of the outgoing edges that match.
MatchingEdges == { i \in 1..Len(Outgoing) : Decision(i).some }

ExactlyOneMatch == Dispatched /\ InIndex /\ Cardinality(MatchingEdges) = 1
NoMatch == Dispatched /\ InIndex /\ MatchingEdges = {}
SeveralMatches == Dispatched /\ InIndex /\ Cardinality(MatchingEdges) >= 2

\* With exactly one match: the matching edge and the context returned for it.
TheMatch == Outgoing[CHOOSE i \in MatchingEdges : TRUE]
NewContext == Decision(CHOOSE i \in MatchingEdges : TRUE).val

\* The steps of the last dispatch that are of the given kinds, in order.
Steps(kinds) == SelectSeq(trace, LAMBDA o : o.kind \in kinds)
KindsOf(seq) == [i \in 1..Len(seq) |-> seq[i].kind]

AllHooks == start_dispatch_hook /\ end_dispatch_hook /\ on_edge_traversal_hook

(***************************************************************************)
(* Claims                                                                  *)
(***************************************************************************)

\* C1: after a dispatch in which exactly one outgoing edge of the current
\* state matches, current_state is that edge's to-state.
C1_StateIsToState ==
    ExactlyOneMatch => current_state = TheMatch.to_state

\* C2: after a dispatch with exactly one match current_context is the value
\* the decision function returned for that edge; after every other dispatch
\* that does not fail it is what it was before.
C2_ContextReplaced ==
    (Dispatched /\ status = "ready") =>
        current_context = IF ExactlyOneMatch THEN NewContext ELSE Pre.current_context

C2_Witness ==
    /\ ExactlyOneMatch
    /\ status = "ready"
    /\ Pre.current_context /= 0
    /\ NewContext /= Pre.current_context

\* C3: a dispatch with exactly one match appends exactly one record to the
\* history: from_state the state before the dispatch, to_state the edge's
\* to-state, the event, the edge, and the context as it was before the
\* transition.
C3_RecordAppended ==
    ExactlyOneMatch =>
        transition_history =
            Append(Pre.transition_history,
                   TransitionRecord(Pre.current_state, TheMatch.to_state, TheEvent,
                                    TheMatch, Pre.current_context))

C3_Witness ==
    /\ ExactlyOneMatch
    /\ Len(transition_history) = 2
    /\ transition_history[2].context /= current_context
    /\ transition_history[2].from_state /= transition_history[2].to_state

\* C4: a dispatch in which no outgoing edge of the current state matches
\* leaves current_state, current_context and the history unchanged.
C4_NoMatchNoChange ==
    NoMatch =>
        /\ status = "ready"
        /\ current_state = Pre.current_state
        /\ current_context = Pre.current_context
        /\ transition_history = Pre.transition_history

C4_Witness ==
    /\ NoMatch
    /\ Len(Outgoing) >= 1
    /\ Len(transition_history) >= 1

\* C5: a dispatch in which two or more outgoing edges match panics, with
\* current_state, current_context and the history as before the dispatch and
\* no history record written.
C5_SeveralMatchesPanic ==
    SeveralMatches =>
        /\ status = "panicked"
        /\ trace[Len(trace)].kind = "panic_multiple"
        /\ Steps({"append", "traverse", "end"}) = << >>
        /\ current_state = Pre.current_state
        /\ current_context = Pre.current_context
        /\ transition_history = Pre.transition_history

C5_Witness ==
    /\ SeveralMatches
    /\ status = "panicked"
    /\ Outgoing[1].to_state /= Outgoing[2].to_state

\* C6: in a dispatch that performs a transition with all hooks registered the
\* steps are, in this order and once each: start-of-dispatch hook,
\* edge-traversal hook, history append, end-of-dispatch hook.
C6_HookOrder ==
    (Dispatched /\ AllHooks /\ Steps({"append"}) /= << >>) =>
        KindsOf(Steps({"start", "traverse", "append", "end"}))
            = << "start", "traverse", "append", "end" >>

C6_Witness ==
    /\ Dispatched /\ AllHooks
    /\ Len(transition_history) = Len(Pre.transition_history) + 1

\* C7: every dispatch on a machine with a start-of-dispatch hook calls it
\* exactly once, before any decision-function call and before any panic, with
\* the dispatched event and the state and context as they are before the
\* dispatch, whether the dispatch transitions, does not, or panics.
C7_StartHookFirst ==
    (Dispatched /\ start_dispatch_hook) =>
        /\ Len(Steps({"start"})) = 1
        /\ trace[2].kind = "start"
        /\ trace[2].event = TheEvent
        /\ trace[2].state = Pre.current_state
        /\ trace[2].context = Pre.current_context
        /\ trace[2].m = Pre

C7_Witness ==
    /\ Dispatched /\ start_dispatch_hook
    /\ status = "panicked"
    /\ trace[Len(trace)].kind = "panic_multiple"
    /\ Len(Steps({"decide"})) >= 2

\* C8: every dispatch that does not panic calls the registered
\* end-of-dispatch hook exactly once, as its last step, whether a transition
\* occurred or no edge matched.
C8_EndHookLast ==
    (Dispatched /\ status = "ready" /\ end_dispatch_hook) =>
        /\ Len(Steps({"end"})) = 1
        /\ trace[Len(trace)].kind = "end"

C8_Witness ==
    /\ NoMatch /\ status = "ready" /\ end_dispatch_hook
    /\ transition_history = << >>
    /\ Len(Outgoing) >= 1

\* C9: in a dispatch that performs a transition the end-of-dispatch hook
\* receives the matched edge's to-state and the new context, and no hook
\* receives the state of before the transition with the context of after it
\* (or the reverse).
C9_EndHookSeesUpdatedPair ==
    (ExactlyOneMatch /\ status = "ready") =>
        \A i \in 1..Len(trace) :
            /\ trace[i].kind = "end" =>
                   /\ trace[i].state = TheMatch.to_state
                   /\ trace[i].context = NewContext
            /\ trace[i].kind \in {"start", "end"} =>
                   \/ /\ trace[i].state = Pre.current_state
                      /\ trace[i].context = Pre.current_context
                   \/ /\ trace[i].state = TheMatch.to_state
                      /\ trace[i].context = NewContext

(***************************************************************************)
(* The conversions, read off the path of the object                        *)
(***************************************************************************)

\* The object was live, has been dehydrated and the flat form hydrated.
RoundTrip ==
    /\ Len(c_path) = 2
    /\ c_path[1].form = "live"
    /\ c_path[2].form = "flat"

\* The live object the round trip started from.
Original == c_path[1].val

\* o is one of the objects of the universe u.
InUniverse(o, u) == \E i \in 1..Len(u) : u[i] = o

\* o is in u and no object before it in u has its id.
FirstWithId(o, u) ==
    \E i \in 1..Len(u) : u[i] = o /\ \A j \in 1..(i - 1) : u[j].id /= o.id

\* Every object the original links is in the universe of its kind.
LinksInUniverse ==
    /\ InUniverse(Original.from_state, c_states)
    /\ InUniverse(Original.to_state, c_states)
    /\ c_obj.kind = "record" =>
           /\ InUniverse(Original.edge, c_edges)
           /\ InUniverse(Original.event, c_events)

\* Equality of two objects in what they hold, wherever they live.
SameState(a, b) == a.id = b.id
SameEvent(a, b) == a.id = b.id /\ a.payload = b.payload
SameEdge(a, b) ==
    /\ a.id = b.id
    /\ a.info = b.info
    /\ SameState(a.from_state, b.from_state)
    /\ SameState(a.to_state, b.to_state)

\* C10 as stated: hydrate(dehydrate(x), universe) has x's id, x's payload
\* and links the same states, edge and event as x, also when the universe
\* holds several objects with one id.
C10_RoundTripSameLinks ==
    (RoundTrip /\ LinksInUniverse) =>
        /\ c_obj.form = "live"
        /\ SameState(c_obj.val.from_state, Original.from_state)
        /\ SameState(c_obj.val.to_state, Original.to_state)
        /\ c_obj.kind = "edge" =>
               /\ c_obj.val.id = Original.id
               /\ c_obj.val.info = Original.info
        /\ c_obj.kind = "record" =>
               /\ c_obj.val.context = Original.context
               /\ SameEdge(c_obj.val.edge, Original.edge)
               /\ SameEvent(c_obj.val.event, Original.event)

\* C10 (amended): hydrate(dehydrate(x), universe) has x's id and x's payload,
\* and each state, edge and event it links has the id of the one x links; it
\* is the very object x links whenever that object is the first of the
\* universe with its id.
C10_RoundTripSameIds ==
    (RoundTrip /\ LinksInUniverse) =>
        /\ c_obj.form = "live"
        /\ c_obj.val.from_state.id = Original.from_state.id
        /\ c_obj.val.to_state.id = Original.to_state.id
        /\ FirstWithId(Original.from_state, c_states)
               => c_obj.val.from_state = Original.from_state
        /\ FirstWithId(Original.to_state, c_states)
               => c_obj.val.to_state = Original.to_state
        /\ c_obj.kind = "edge" =>
               /\ c_obj.val.id = Original.id
               /\ c_obj.val.info = Original.info
        /\ c_obj.kind = "record" =>
               /\ c_obj.val.context = Original.context
               /\ c_obj.val.edge.id = Original.edge.id
               /\ c_obj.val.event.id = Original.event.id
               /\ FirstWithId(Original.edge, c_edges)
                      => c_obj.val.edge = Original.edge
               /\ FirstWithId(Original.event, c_events)
                      => c_obj.val.event = Original.event

C10_Witness ==
    /\ RoundTrip /\ LinksInUniverse
    /\ c_obj.kind = "record" /\ c_obj.form = "live"
    /\ c_obj.val.context = MaxContext
    /\ FirstWithId(Original.edge, c_edges)
    /\ c_obj.val.edge = e2
    /\ ~FirstWithId(Original.event, c_events)
    /\ c_obj.val.from_state /= Original.from_state

(***************************************************************************)
(* Claims on failures of hydration, of dispatch and of construction        *)
(***************************************************************************)

\* Some object of the universe u has the id.
HasId(u, id) == \E i \in 1..Len(u) : u[i].id = id

\* The last conversion was a hydrate call: c_obj is its outcome.
JustHydrated == c_path /= << >> /\ c_path[Len(c_path)].form = "flat"

\* The flat form that call was given.
Flat == c_path[Len(c_path)].val

\* Every id of that flat form is the id of an object of the universe.
AllIdsResolve ==
    /\ HasId(c_states, Flat.from_state_id)
    /\ HasId(c_states, Flat.to_state_id)
    /\ c_obj.kind = "record" =>
           /\ HasId(c_events, Flat.event_id)
           /\ HasId(c_edges, Flat.edge_id)

\* C11: hydrating an edge or a transition record panics whenever an id of the
\* flat form (from-state, to-state, for records also event or edge) is absent
\* from the universe; an object it returns links objects of the universe only.
C11_MissingIdPanics ==
    JustHydrated =>
        /\ ~AllIdsResolve => c_obj.form = "panicked"
        /\ c_obj.form = "live" =>
               /\ InUniverse(c_obj.val.from_state, c_states)
               /\ InUniverse(c_obj.val.to_state, c_states)
               /\ c_obj.kind = "record" =>
                      /\ InUniverse(c_obj.val.event, c_events)
                      /\ InUniverse(c_obj.val.edge, c_edges)

C11_Witness ==
    /\ JustHydrated
    /\ c_obj.kind = "record"
    /\ HasId(c_states, Flat.from_state_id)
    /\ HasId(c_states, Flat.to_state_id)
    /\ HasId(c_events, Flat.event_id)
    /\ ~HasId(c_edges, Flat.edge_id)
    /\ c_obj.form = "panicked"
    /\ c_obj.val.what = "edge"

\* C12: a dispatch on a machine whose current state is absent from the
\* adjacency index panics, with current_state, current_context and the
\* history unchanged and without a call of the decision function.
C12_MissingStatePanics ==
    (Dispatched /\ ~InIndex) =>
        /\ status = "panicked"
        /\ trace[Len(trace)].kind = "panic_no_state"
        /\ Steps({"decide", "traverse", "append", "end"}) = << >>
        /\ current_state = Pre.current_state
        /\ current_context = Pre.current_context
        /\ transition_history = Pre.transition_history

C12_Witness ==
    /\ Dispatched /\ ~InIndex
    /\ status = "panicked"
    /\ states /= << >>
    /\ \E i \in 1..Len(edges) : PtrEq(edges[i].from_state, current_state)

\* An edge one of whose state ids is the id of no configured state.
Dangling(edge) ==
    \/ ~HasId(states, edge.from_state.id)
    \/ ~HasId(states, edge.to_state.id)

\* C13: construction fails for an edge collection holding an edge whose
\* from-state id or to-state id is the id of no configured state, so no
\* machine exists whose edges include such an edge.
C13_NoDanglingEdge ==
    \A i \in 1..Len(edges) : ~Dangling(edges[i])

(***************************************************************************)
(* Claims on hooks, history and the evaluation of edges                    *)
(***************************************************************************)

\* The last dispatch as a machine without hooks performs it: same machine
\* before, same index, same decision function, same event.
WithoutHooks ==
    DispatchResult(Pre, state_to_edge_map, event_handler, FALSE, FALSE, FALSE, TheEvent)

\* C14: hooks cannot veto a transition or substitute a context: a machine
\* with any subset of the hooks registered ends each dispatch with the
\* current_state, current_context and history, and the panic or not, of the
\* same machine without hooks.
C14_HooksChangeNothing ==
    Dispatched =>
        /\ current_state = WithoutHooks.m.current_state
        /\ current_context = WithoutHooks.m.current_context
        /\ transition_history = WithoutHooks.m.transition_history
        /\ (status = "panicked") = WithoutHooks.panic

C14_Witness ==
    /\ Dispatched /\ AllHooks
    /\ Len(transition_history) = 2
    /\ Len(Steps({"start", "traverse", "end"})) = 3

\* The sequence g is a prefix of the sequence h.
IsPrefix(g, h) == Len(g) <= Len(h) /\ SubSeq(h, 1, Len(g)) = g

\* C15: the history is append-only: the history before a dispatch is a prefix
\* of the history after it, which is longer by one when a transition is
\* performed (exactly one edge matches) and by none otherwise.
C15_HistoryAppendOnly ==
    Dispatched =>
        /\ IsPrefix(Pre.transition_history, transition_history)
        /\ Len(transition_history) =
               Len(Pre.transition_history) + (IF ExactlyOneMatch THEN 1 ELSE 0)

C15_Witness ==
    /\ Dispatched
    /\ Len(Pre.transition_history) = 1
    /\ Len(transition_history) = 2
    /\ transition_history[1] /= transition_history[2]

\* The edges of the edge collection whose from-state has the id of s, in
\* input order.
EdgesFromId(s) == SelectSeq(edges, LAMBDA edge : edge.from_state.id = s.id)

\* C16: after construction the index maps every configured state s to the
\* edges whose from-state id is the id of s, in input order, also those whose
\* from-state is another object with that id.
C16_IndexGroupsById ==
    \A i \in 1..Len(states) :
        /\ states[i].id \in DOMAIN state_to_edge_map
        /\ state_to_edge_map[states[i].id] = EdgesFromId(states[i])

\* The edges the decision function was called on in the last dispatch, in
\* the order of the calls.
Decided == [i \in 1..Len(Steps({"decide"})) |-> Steps({"decide"})[i].edge]

\* The position of the second matching outgoing edge.
SecondMatch ==
    CHOOSE i \in MatchingEdges :
        Cardinality({ j \in MatchingEdges : j < i }) = 1

\* C17 as stated: in every dispatch the decision function is called once for
\* each outgoing edge, in index order, with the context of before the
\* dispatch, whatever matched earlier.
C17_EvaluationExhaustive ==
    (Dispatched /\ InIndex) =>
        /\ Decided = Outgoing
        /\ \A i \in 1..Len(Steps({"decide"})) :
               Steps({"decide"})[i].context = Pre.current_context

\* C17 (amended): the decision function is called on the outgoing edges in
\* index order with the context of before the dispatch: once on each of them
\* when at most one matches, a match not ending the evaluation; up to and
\* including the second matching edge, where the dispatch panics, otherwise.
C17_EvaluationUpToSecondMatch ==
    (Dispatched /\ InIndex) =>
        /\ Decided = IF SeveralMatches THEN SubSeq(Outgoing, 1, SecondMatch)
                     ELSE Outgoing
        /\ \A i \in 1..Len(Steps({"decide"})) :
               /\ Steps({"decide"})[i].context = Pre.current_context
               /\ Steps({"decide"})[i].event = TheEvent
               /\ Steps({"decide"})[i].result = Decision(i)

C17_Witness ==
    /\ ExactlyOneMatch
    /\ MatchingEdges = {1}
    /\ Len(Outgoing) = 3
    /\ Len(Decided) = 3
    /\ Pre.current_context /= 0

\* The last record of the history as it was when the last dispatch began.
LastRecord == Pre.transition_history[Len(Pre.transition_history)]

\* C18: after a dispatch has transitioned along an edge e, the next dispatch
\* evaluates exactly the edges indexed under the to-state of e.
C18_EvaluatesEdgesOfToState ==
    (/\ Dispatched /\ status = "ready"
     /\ Pre.transition_history /= << >>
     /\ LastRecord.to_state.id \in DOMAIN state_to_edge_map)
        => Decided = state_to_edge_map[LastRecord.to_state.id]

\* C19: the edge-traversal hook is called in a dispatch if and only if
\* exactly one outgoing edge matched; it receives the dispatched event, the
\* matched edge and the new context, and when it runs current_context is
\* still the value of before the transition and the history has no record of
\* this transition.
C19_TraversalHook ==
    (Dispatched /\ on_edge_traversal_hook) =>
        /\ Len(Steps({"traverse"})) = IF ExactlyOneMatch THEN 1 ELSE 0
        /\ \A i \in 1..Len(trace) :
               trace[i].kind = "traverse" =>
                   /\ trace[i].event = TheEvent
                   /\ trace[i].edge = TheMatch
                   /\ trace[i].context = NewContext
                   /\ trace[i].m.current_context = Pre.current_context
                   /\ trace[i].m.transition_history = Pre.transition_history

C19_Witness ==
    /\ ExactlyOneMatch /\ on_edge_traversal_hook
    /\ Len(Steps({"traverse"})) = 1
    /\ Len(Pre.transition_history) = 1
    /\ Len(Outgoing) >= 2

\* The current state is in the index with no outgoing edge, on a machine
\* that has not panicked.
IsSink ==
    /\ status = "ready"
    /\ current_state.id \in DOMAIN state_to_edge_map
    /\ state_to_edge_map[current_state.id] = << >>

\* C20: a state without outgoing edges is a sink: once it is the current
\* state, every dispatch leaves current_state, current_context and the
\* history unchanged and does not panic, so that it is a sink again.
C20_SinkForever ==
    [][IsSink =>
          /\ IsSink'
          /\ current_state' = current_state
          /\ current_context' = current_context
          /\ transition_history' = transition_history]_vars

C20_Witness ==
    /\ Dispatched /\ IsSink
    /\ Pre.current_state = current_state
    /\ Steps({"start", "end"}) /= << >>
    /\ \E i \in 1..Len(edges) : edges[i].to_state = current_state

(***************************************************************************)
(* Claims on the shape of the history and on dehydration after hydration   *)
(***************************************************************************)

\* C21: after any sequence of dispatches that do not panic the history is a
\* connected path from the initial state to the current state: the first
\* record's from_state is the initial state, each later record's from_state
\* is the to_state of the record before it, and current_state is the last
\* record's to_state (the initial state while the history is empty).
C21_HistoryIsPath ==
    status = "ready" =>
        /\ transition_history /= << >> =>
               transition_history[1].from_state = initial_state
        /\ \A i \in 2..Len(transition_history) :
               transition_history[i].from_state = transition_history[i - 1].to_state
        /\ current_state =
               IF transition_history = << >> THEN initial_state
               ELSE transition_history[Len(transition_history)].to_state

\* The object was flat, has been hydrated and the live object dehydrated.
ReverseTrip ==
    /\ Len(c_path) = 2
    /\ c_path[1].form = "flat"
    /\ c_path[2].form = "live"

\* C22: dehydration is a left inverse of hydration: for a flat edge or flat
\* transition record whose ids all resolve in the universe,
\* dehydrate(hydrate(flat, universe)) is flat, field for field, also when
\* several objects of the universe have one id.
C22_DehydrateAfterHydrate ==
    ReverseTrip =>
        /\ c_obj.form = "flat"
        /\ c_obj.val = c_path[1].val

C22_Witness ==
    /\ ReverseTrip
    /\ c_obj.kind = "record"
    /\ c_obj.val.context = MaxContext
    /\ Cardinality({ i \in 1..Len(c_events) : c_events[i].id = c_obj.val.event_id }) = 2
    /\ Cardinality({ i \in 1..Len(c_edges) : c_edges[i].id = c_obj.val.edge_id }) = 2
    /\ Cardinality({ i \in 1..Len(c_states) : c_states[i].id = c_obj.val.to_state_id }) = 2
    /\ c_path[2].val.edge.from_state.id /= c_obj.val.from_state_id

====
